---- MODULE Spec2Model ----
(***************************************************************************)
(* Wrestler AI browser client.                                             *)
(*                                                                         *)
(* The components are modelled each with its own specification:           *)
(*   SpecBoard  the AnchorSelectStep component (the anchor board): its      *)
(*              React state, its handlers, and the fetches it has in       *)
(*              flight;                                                    *)
(*   SpecApp    the session-based App controller: its React state, its     *)
(*              handlers, localStorage, and the upload / analysis          *)
(*              requests and timers it has in flight;                      *)
(*   SpecTrim   the TrimStep component: the trim window, the preview frame  *)
(*              and its object URLs, the set-trim requests;                 *)
(*   SpecPick   the file pickers UploadStep and InlineUploader;             *)
(*   SpecTarget the TargetSelectStep component (the single-box flow): the    *)
(*              slider, its debounce timer, the frame and box fetches.      *)
(* An await in the source is a suspension point: the code before it is one *)
(* action, the code after it is the action taken when the response         *)
(* arrives.  Responses arrive in any order.                                *)
(***************************************************************************)
EXTENDS Integers, Sequences, FiniteSets, Bags, TLC

(***************************************************************************)
(* Bounds of the model.                                                    *)
(***************************************************************************)
MaxAnchors == 2
MaxBoxes == 2
MaxJobs == 2
MaxInFlight == 2
MaxAnalyses == 2
MaxTimers == 2
MaxContracts == 2
MaxUploads == 3
MaxUrls == 2
MaxSaves == 1
MaxDuration == 4
MaxTime == 2

(***************************************************************************)
(* Program constants.                                                      *)
(***************************************************************************)
REQUIRED_PERCENT == 65
MIN_CLIP_LENGTH == 3
SLIDER_STEPS == 10     \* the sliders step by 0.1 s

VARIABLES
  \* ---- AnchorSelectStep ----
  mounted,             \* an instance of the component is mounted
  job,                 \* props.uploadData.job_id of the mounted instance
  anchorTimestamps,
  anchors,
  currentAnchorIndex,
  loadingAnchors,
  frameUrl,
  boxes,
  frameWidth,
  frameHeight,
  autoTarget,
  loadingFrame,
  inflight,            \* bag of the fetches awaiting their response
  submitted,           \* the argument of the last onAnalyze(anchors) call
  \* ---- App ----
  appState,
  session,
  uploadData,          \* the job_id of the upload response, 0 when null
  error,
  isUploading,
  uploadComplete,
  analyzeStarted,
  analyzeComplete,
  lastTarget,
  pendingMode,         \* pendingModeRef.current
  storage,             \* localStorage, the three STORAGE_KEYS
  nextJob,             \* the job_id the backend gives the next upload
  uploads,             \* bag of the upload requests awaiting their response
  requests,            \* bag of the analysis requests awaiting their response
  timers,              \* the 1500 ms completion timers not yet fired
  lastRequest,         \* the analysis request sent last, as the network log shows it
  \* ---- TrimStep ----
  trimMounted,
  duration,            \* uploadData.duration_seconds || 0
  trimStart,
  trimEnd,
  currentPreviewTime,
  trimFrameUrl,        \* frameUrl
  trimLoadingFrame,    \* loadingFrame
  isSaving,
  trimError,           \* error
  previewTimer,        \* the pending timer of the debounce effect
  frameFetches,        \* bag of the fetchFrame calls awaiting their response
  trimRequests,        \* the set-trim requests awaiting their response
  liveUrls,            \* the object URLs created and not revoked
  nextUrl,             \* the object URL createObjectURL returns next
  trimLog,             \* the bodies of the set-trim requests sent
  trimDone,            \* the arguments of the onTrimComplete calls
  \* ---- UploadStep / InlineUploader ----
  uploader,            \* which of the two components is rendered
  file,
  fileError,           \* error
  parentUploading,     \* props.isUploading
  clearTimers,         \* the 500 ms timers of InlineUploader.handleUpload not yet fired
  offered,             \* the file of the last onUpload call
  \* ---- TargetSelectStep ----
  currentTime,
  targetFrame,         \* frameUrl: the time of the frame shown, NoT when null
  targetBoxes,         \* boxes
  selectedTarget,
  targetLoading,       \* loadingFrame
  sliderTimer,         \* the pending timer of sliderDebounceRef
  targetFetches,       \* bag of the fetchFrameAndBoxes calls awaiting a response
  sent                 \* the arguments of the onAnalyze call

boardVars == <<mounted, job, anchorTimestamps, anchors, currentAnchorIndex,
               loadingAnchors, frameUrl, boxes, frameWidth, frameHeight,
               autoTarget, loadingFrame, inflight, submitted>>

appVars == <<appState, session, uploadData, error, isUploading, uploadComplete,
             analyzeStarted, analyzeComplete, lastTarget, pendingMode, storage,
             nextJob, uploads, requests, timers, lastRequest>>

trimVars == <<trimMounted, duration, trimStart, trimEnd, currentPreviewTime,
              trimFrameUrl, trimLoadingFrame, isSaving, trimError, previewTimer,
              frameFetches, trimRequests, liveUrls, nextUrl, trimLog, trimDone>>

pickVars == <<uploader, file, fileError, parentUploading,
              clearTimers, offered>>

targetVars == <<currentTime, targetFrame, targetBoxes, selectedTarget,
                targetLoading, sliderTimer, targetFetches, sent>>

vars == <<boardVars, appVars, trimVars, pickVars, targetVars>>

(***************************************************************************)
(* Values.  A timestamp is a number of seconds; a box geometry {x,y,w,h}   *)
(* is the geometry of one detection of one frame of one job, <<job,t,id>>; *)
(* a frame object URL is the frame it shows, <<job,t>>.                    *)
(***************************************************************************)
NoT == -1       \* a field that is undefined
HoleT == -2     \* an array hole
NoBox == <<0, NoT, 0>>
NoFrame == <<0, NoT>>
NoDet == [id |-> 0, conf |-> 0, g |-> NoBox]
NotSubmitted == <<[t |-> HoleT, box |-> NoBox, skipped |-> TRUE]>>

Jobs == 1..MaxJobs

\* The anchors the backend returns: ascending, the first at 0.
Timestamp(i) == 5 * i
Timestamps(n) == [i \in 1..n |-> Timestamp(i - 1)]

\* The detections of the boxes response for frame (j, t).
Detection(j, t, k) == [id |-> k, conf |-> 1, g |-> <<j, t, k>>]
Detections(j, t, n) == [k \in 1..n |-> Detection(j, t, k)]

(***************************************************************************)
(* JavaScript arrays: 0-based, reading past the end gives undefined,       *)
(* writing past the end leaves holes.                                      *)
(***************************************************************************)
Hole == [t |-> HoleT, box |-> NoBox, skipped |-> FALSE]
IsHole(a) == a.t = HoleT

\* {...arr[i]}: the fields of arr[i], none when arr[i] is undefined
SpreadAt(arr, i) ==
  IF i >= 0 /\ i < Len(arr) /\ ~IsHole(arr[i + 1])
    THEN arr[i + 1]
    ELSE [t |-> NoT, box |-> NoBox, skipped |-> FALSE]

\* updated = [...arr]; updated[i] = v
ArraySet(arr, i, v) ==
  IF i < Len(arr)
    THEN [arr EXCEPT ![i + 1] = v]
    ELSE [k \in 1..(i + 1) |->
            IF k <= Len(arr) THEN arr[k] ELSE IF k = i + 1 THEN v ELSE Hole]

\* arr.filter(p).length / arr.some(p) skip the holes
Present(arr) == {k \in 1..Len(arr) : ~IsHole(arr[k])}

(***************************************************************************)
(* AnchorSelectStep: derived values of a render.                           *)
(***************************************************************************)
hasAnySelection == \E k \in Present(anchors) : anchors[k].box # NoBox

answeredCount ==
  Cardinality({k \in Present(anchors) : anchors[k].box # NoBox \/ anchors[k].skipped})

\* Math.ceil(n * (REQUIRED_PERCENT / 100)); the double product is exact enough
\* that the ceiling is the ceiling of the rational n * 65 / 100.
requiredCount == (Len(anchorTimestamps) * REQUIRED_PERCENT + 99) \div 100

hasEnoughAnswers == answeredCount >= requiredCount

canAnalyze_NoThreshold == hasAnySelection

canAnalyze == hasAnySelection /\ hasEnoughAnswers

\* the component renders the board (not the "Generating anchor points" loader)
Interactive == mounted /\ ~loadingAnchors

(***************************************************************************)
(* Fetches in flight.                                                      *)
(***************************************************************************)
Fetch(kind, j, t, init) ==
  [kind |-> kind, job |-> j, t |-> t, init |-> init]

Pending == BagToSet(inflight)
Issue(bag, f) == bag (+) SetToBag({f})
Settle(bag, f) == bag (-) SetToBag({f})
CanIssue == BagCardinality(inflight) < MaxInFlight

BoardInit ==
  /\ mounted = FALSE
  /\ job = 0
  /\ anchorTimestamps = <<>>
  /\ anchors = <<>>
  /\ currentAnchorIndex = 0
  /\ loadingAnchors = TRUE
  /\ frameUrl = NoFrame
  /\ boxes = <<>>
  /\ frameWidth = 0
  /\ frameHeight = 0
  /\ autoTarget = NoDet
  /\ loadingFrame = FALSE
  /\ inflight = EmptyBag
  /\ submitted = NotSubmitted

(***************************************************************************)
(* AnchorSelectStep: mounting.  The parent renders the component while     *)
(* appState is ANCHOR_SELECT and uploadData is set; the mount effect       *)
(* depends on uploadData.job_id and runs again when the job changes under  *)
(* a mounted instance.                                                     *)
(***************************************************************************)
FreshState ==
  /\ anchorTimestamps' = <<>>
  /\ anchors' = <<>>
  /\ currentAnchorIndex' = 0
  /\ frameUrl' = NoFrame
  /\ boxes' = <<>>
  /\ frameWidth' = 0
  /\ frameHeight' = 0
  /\ autoTarget' = NoDet
  /\ loadingFrame' = FALSE

\* fetchAnchors(jobId), up to its first await
FetchAnchorsStart(j) ==
  /\ loadingAnchors' = TRUE
  /\ inflight' = Issue(inflight, Fetch("anchors", j, NoT, TRUE))

Mount(j) ==
  /\ ~mounted
  /\ j >= job
  /\ mounted' = TRUE
  /\ job' = j
  /\ FreshState
  /\ FetchAnchorsStart(j)
  /\ submitted' = NotSubmitted
  /\ UNCHANGED <<appVars, trimVars, pickVars, targetVars>>

ChangeJob(j) ==
  /\ mounted
  /\ CanIssue
  /\ j > job
  /\ job' = j
  /\ FetchAnchorsStart(j)
  /\ UNCHANGED <<mounted, anchorTimestamps, anchors, currentAnchorIndex,
                 frameUrl, boxes, frameWidth, frameHeight, autoTarget,
                 loadingFrame, submitted>>
  /\ UNCHANGED <<appVars, trimVars, pickVars, targetVars>>

\* The state of an unmounted instance is gone, and the setState calls its pending
\* fetches still make do nothing: they leave the model with the instance.
Discard ==
  /\ mounted' = FALSE
  /\ FreshState
  /\ loadingAnchors' = TRUE
  /\ inflight' = EmptyBag

Unmount ==
  /\ mounted
  /\ Discard
  /\ UNCHANGED <<job, submitted>>
  /\ UNCHANGED <<appVars, trimVars, pickVars, targetVars>>

(***************************************************************************)
(* fetchAnchors after its await, and fetchFrameAndBoxes.                   *)
(***************************************************************************)
\* the finally blocks that run when the chain of fetch f ends
ChainEnds(f) ==
  /\ loadingFrame' = FALSE
  /\ loadingAnchors' = IF f.init THEN FALSE ELSE loadingAnchors

InitialAnchors(timestamps) ==
  [k \in 1..Len(timestamps) |-> [t |-> timestamps[k], box |-> NoBox, skipped |-> FALSE]]

AnchorsOk(f, n) ==
  /\ f \in Pending /\ f.kind = "anchors"
  /\ anchorTimestamps' = Timestamps(n)
  /\ anchors' = InitialAnchors(Timestamps(n))
  /\ IF n > 0
       THEN \* await fetchFrameAndBoxes(jobId, timestamps[0], 0)
            /\ loadingFrame' = TRUE
            /\ inflight' = Issue(Settle(inflight, f),
                                 Fetch("frame", f.job, Timestamp(0), TRUE))
            /\ UNCHANGED loadingAnchors
       ELSE /\ loadingAnchors' = FALSE
            /\ inflight' = Settle(inflight, f)
            /\ UNCHANGED loadingFrame
  /\ UNCHANGED <<mounted, job, currentAnchorIndex, frameUrl, boxes,
                 frameWidth, frameHeight, autoTarget, submitted>>
  /\ UNCHANGED <<appVars, trimVars, pickVars, targetVars>>

\* a response that is not ok, or a rejected fetch
AnchorsFail(f) ==
  /\ f \in Pending /\ f.kind = "anchors"
  /\ loadingAnchors' = FALSE
  /\ inflight' = Settle(inflight, f)
  /\ UNCHANGED <<mounted, job, anchorTimestamps, anchors, currentAnchorIndex,
                 frameUrl, boxes, frameWidth, frameHeight, autoTarget,
                 loadingFrame, submitted>>
  /\ UNCHANGED <<appVars, trimVars, pickVars, targetVars>>

\* the frame response arrived (ok or not); the boxes fetch follows
FrameResponse(f, ok) ==
  /\ f \in Pending /\ f.kind = "frame"
  /\ frameUrl' = IF ok THEN <<f.job, f.t>> ELSE frameUrl
  /\ inflight' = Issue(Settle(inflight, f), [f EXCEPT !.kind = "boxes"])
  /\ UNCHANGED <<mounted, job, anchorTimestamps, anchors, currentAnchorIndex,
                 loadingAnchors, boxes, frameWidth, frameHeight, autoTarget,
                 loadingFrame, submitted>>
  /\ UNCHANGED <<appVars, trimVars, pickVars, targetVars>>

\* the frame fetch rejected: catch, then finally
FrameError(f) ==
  /\ f \in Pending /\ f.kind = "frame"
  /\ ChainEnds(f)
  /\ inflight' = Settle(inflight, f)
  /\ UNCHANGED <<mounted, job, anchorTimestamps, anchors, currentAnchorIndex,
                 frameUrl, boxes, frameWidth, frameHeight, autoTarget, submitted>>
  /\ UNCHANGED <<appVars, trimVars, pickVars, targetVars>>

BoxesOk(f, n, auto) ==
  /\ f \in Pending /\ f.kind = "boxes"
  /\ boxes' = Detections(f.job, f.t, n)
  /\ autoTarget' = IF auto = 0 THEN NoDet ELSE Detection(f.job, f.t, auto)
  /\ frameWidth' = f.job
  /\ frameHeight' = f.job
  /\ ChainEnds(f)
  /\ inflight' = Settle(inflight, f)
  /\ UNCHANGED <<mounted, job, anchorTimestamps, anchors, currentAnchorIndex,
                 frameUrl, submitted>>
  /\ UNCHANGED <<appVars, trimVars, pickVars, targetVars>>

BoxesFail(f) ==
  /\ f \in Pending /\ f.kind = "boxes"
  /\ ChainEnds(f)
  /\ inflight' = Settle(inflight, f)
  /\ UNCHANGED <<mounted, job, anchorTimestamps, anchors, currentAnchorIndex,
                 frameUrl, boxes, frameWidth, frameHeight, autoTarget, submitted>>
  /\ UNCHANGED <<appVars, trimVars, pickVars, targetVars>>

(***************************************************************************)
(* AnchorSelectStep: the handlers.                                         *)
(***************************************************************************)
GoTo_NoFetch(index) ==
  IF index >= 0 /\ index < Len(anchorTimestamps)
    THEN /\ currentAnchorIndex' = index
         /\ UNCHANGED <<loadingFrame, inflight>>
    ELSE UNCHANGED <<currentAnchorIndex, loadingFrame, inflight>>

\* goToAnchor(index), called from a handler of the current render
GoTo(index) ==
  IF index >= 0 /\ index < Len(anchorTimestamps)
    THEN /\ currentAnchorIndex' = index
         /\ loadingFrame' = TRUE
         /\ inflight' = Issue(inflight,
                              Fetch("frame", job, anchorTimestamps[index + 1], FALSE))
    ELSE UNCHANGED <<currentAnchorIndex, loadingFrame, inflight>>

\* the indices the rendered controls can pass: a pill, Back, Next
Reachable(index) ==
  \/ index >= 0 /\ index < Len(anchorTimestamps)
  \/ index = currentAnchorIndex - 1 /\ currentAnchorIndex # 0
  \/ index = currentAnchorIndex + 1 /\ currentAnchorIndex < Len(anchorTimestamps) - 1

goToAnchor(index) ==
  /\ Interactive
  /\ Reachable(index)
  /\ CanIssue
  /\ GoTo(index)
  /\ UNCHANGED <<mounted, job, anchorTimestamps, anchors, loadingAnchors,
                 frameUrl, boxes, frameWidth, frameHeight, autoTarget, submitted>>
  /\ UNCHANGED <<appVars, trimVars, pickVars, targetVars>>

SelectedAnchor_KeepSkipped(a, det) == [a EXCEPT !.box = det.g]

SelectedAnchor(a, det) == [a EXCEPT !.box = det.g, !.skipped = FALSE]

SkippedAnchor_KeepBox(a) == [a EXCEPT !.skipped = TRUE]

SkippedAnchor(a) == [a EXCEPT !.box = NoBox, !.skipped = TRUE]

SelectBox(det) ==
  anchors' = ArraySet(anchors, currentAnchorIndex,
                      SelectedAnchor(SpreadAt(anchors, currentAnchorIndex), det))

\* a click on a detection drawn over the frame
Clickable(det) ==
  /\ frameUrl # NoFrame
  /\ frameWidth # 0
  /\ \E k \in 1..Len(boxes) : boxes[k] = det

handleSelectBox(det) ==
  /\ Interactive
  /\ Clickable(det)
  /\ SelectBox(det)
  /\ UNCHANGED <<mounted, job, anchorTimestamps, currentAnchorIndex,
                 loadingAnchors, frameUrl, boxes, frameWidth, frameHeight,
                 autoTarget, loadingFrame, inflight, submitted>>
  /\ UNCHANGED <<appVars, trimVars, pickVars, targetVars>>

handleSkip ==
  /\ Interactive
  /\ CanIssue
  /\ anchors' = ArraySet(anchors, currentAnchorIndex,
                         SkippedAnchor(SpreadAt(anchors, currentAnchorIndex)))
  /\ IF currentAnchorIndex < Len(anchorTimestamps) - 1
       THEN GoTo(currentAnchorIndex + 1)
       ELSE UNCHANGED <<currentAnchorIndex, loadingFrame, inflight>>
  /\ UNCHANGED <<mounted, job, anchorTimestamps, loadingAnchors,
                 frameUrl, boxes, frameWidth, frameHeight, autoTarget, submitted>>
  /\ UNCHANGED <<appVars, trimVars, pickVars, targetVars>>

\* the Auto-detect button is disabled while boxes is empty
handleAutoSelect ==
  /\ Interactive
  /\ Len(boxes) > 0
  /\ IF autoTarget # NoDet THEN SelectBox(autoTarget) ELSE SelectBox(boxes[1])
  /\ UNCHANGED <<mounted, job, anchorTimestamps, currentAnchorIndex,
                 loadingAnchors, frameUrl, boxes, frameWidth, frameHeight,
                 autoTarget, loadingFrame, inflight, submitted>>
  /\ UNCHANGED <<appVars, trimVars, pickVars, targetVars>>

\* onAnalyze(anchors): the parent leaves ANCHOR_SELECT, the component unmounts
handleAnalyze ==
  /\ Interactive
  /\ canAnalyze
  /\ submitted' = anchors
  /\ Discard
  /\ UNCHANGED job
  /\ UNCHANGED <<appVars, trimVars, pickVars, targetVars>>

(***************************************************************************)
(* JavaScript strings, as sequences of characters.                         *)
(***************************************************************************)
UpperCase == <<"A", "B", "C", "D", "E", "F", "G", "H", "I", "J", "K", "L", "M",
               "N", "O", "P", "Q", "R", "S", "T", "U", "V", "W", "X", "Y", "Z">>
LowerCase == <<"a", "b", "c", "d", "e", "f", "g", "h", "i", "j", "k", "l", "m",
               "n", "o", "p", "q", "r", "s", "t", "u", "v", "w", "x", "y", "z">>

toLowerCase(s) ==
  [i \in 1..Len(s) |->
     IF \E k \in 1..Len(UpperCase) : UpperCase[k] = s[i]
       THEN LowerCase[CHOOSE k \in 1..Len(UpperCase) : UpperCase[k] = s[i]]
       ELSE s[i]]

includes(s, sub) ==
  \E i \in 0..(Len(s) - Len(sub)) : \A k \in 1..Len(sub) : s[i + k] = sub[k]

\* a title or type that is missing (undefined) behaves as '' in the code read here
NoString == <<>>

(***************************************************************************)
(* App: values.                                                            *)
(***************************************************************************)
STATES == [UPLOAD |-> "upload", TARGET_SELECT |-> "target_select",
           ANCHOR_SELECT |-> "anchor_select", ANALYZING |-> "analyzing",
           RESULTS |-> "results"]

\* the component threw while rendering and React removed the tree
Crashed == "crashed"

NoError == "null"
UploadFailed == "Upload failed"
AnalysisFailed == "Analysis failed"
SetResultsUndefined == "setResults is not defined"

\* the bodies of two successful analysis responses: two shot events, a level
\* change and the tips 'Get Lower', 'Keep Hands Up', 'Head Up', 'Elbows In'; then
\* a sprawl, an event that
\* is a takedown and a shot, an event without type, the tip 'get lower', a tip
\* without title and the tip 'Stay Low' given twice
AnalysisData ==
  << [events |-> << [type |-> <<"s", "h", "o", "t", "_", "a", "t", "t", "e", "m", "p", "t">>],
                    [type |-> <<"S", "h", "o", "t">>],
                    [type |-> <<"L", "e", "v", "e", "l", "_", "C", "h", "a", "n", "g", "e">>] >>,
      pointers |-> << [title |-> <<"G", "e", "t", " ", "L", "o", "w", "e", "r">>],
                      [title |-> <<"K", "e", "e", "p", " ", "H", "a", "n", "d", "s", " ", "U", "p">>],
                      [title |-> <<"H", "e", "a", "d", " ", "U", "p">>],
                      [title |-> <<"E", "l", "b", "o", "w", "s", " ", "I", "n">>] >>],
     [events |-> << [type |-> <<"S", "P", "R", "A", "W", "L">>],
                    [type |-> <<"t", "a", "k", "e", "d", "o", "w", "n", "_", "s", "h", "o", "t">>],
                    [type |-> NoString] >>,
      pointers |-> << [title |-> <<"g", "e", "t", " ", "l", "o", "w", "e", "r">>],
                      [title |-> NoString],
                      [title |-> <<"S", "t", "a", "y", " ", "L", "o", "w">>],
                      [title |-> <<"s", "t", "a", "y", " ", "l", "o", "w">>] >>] >>

\* the submitted contracts: a {targetBox, tStart} pair or an anchors list
Contracts == 1..MaxContracts
NoTarget == [kind |-> "null", c |-> 0]
SingleTarget(c) == [kind |-> "single", c |-> c]
AnchorsTarget(c) == [kind |-> "anchors", c |-> c]

NoIssues == [key \in {} |-> 0]
NoSummary == <<0, FALSE>>

\* `Analyzed ${clipCount} clip${clipCount > 1 ? 's' : ''} in this session.`
ClipsSummary(clipCount) == <<clipCount, clipCount > 1>>

EmptyContext ==
  [totalShotAttempts |-> 0, totalLevelChanges |-> 0, totalSprawls |-> 0,
   recurringIssues |-> NoIssues, clipsSummary |-> NoSummary, lastClipIndex |-> 0]

EmptySession ==
  [analyses |-> <<>>, currentMode |-> "new", matchContext |-> EmptyContext]

\* a request body without a prior_context field
NoPriorContext == [tag |-> "absent", last |-> 0, context |-> EmptyContext, clipNumber |-> 0]

NoRequest ==
  [kind |-> "none", job |-> 0, c |-> 0, continuation |-> FALSE, clip_index |-> 0,
   prior_context |-> NoPriorContext]

(***************************************************************************)
(* localStorage.  An item is absent, a string JSON.parse rejects, or the   *)
(* JSON text of a value; JSON.stringify followed by JSON.parse gives the   *)
(* value back for the plain data stored here.                              *)
(***************************************************************************)
Item(tag, val) == [tag |-> tag, val |-> val]
stringify(val) == Item("json", val)

\* The JSON text of an object lists its members; JSON.parse builds the object
\* again from them.  recurringIssues is the object of the session whose keys
\* are data.
SessionJSON(s) ==
  [s EXCEPT !.matchContext.recurringIssues = {<<key, @[key]>> : key \in DOMAIN @}]

ParsedSession(json) ==
  [json EXCEPT !.matchContext.recurringIssues =
     [key \in {member[1] : member \in @} |->
        (CHOOSE member \in @ : member[1] = key)[2]]]

\* JSON.stringify(session)
stringifySession(s) == Item("json", SessionJSON(s))

NoSessionText == SessionJSON(EmptySession)
Unreadable(item) == item.tag \in {"absent", "corrupt"}

\* removeItem in the catch of a failed JSON.parse
AfterRead(item, none) == IF item.tag = "corrupt" THEN Item("absent", none) ELSE item

getInitialSession_Fresh(store) == EmptySession

\* getInitialSession(): whatever JSON.parse returns is returned as it is
getInitialSession(store) ==
  IF Unreadable(store.session) THEN EmptySession ELSE ParsedSession(store.session.val)

\* initialSession.analyses.length of a value that is null, or has no analyses
InitialiserThrows(store) == store.session.tag \in {"null", "object"}

\* the useState initialisers, then the three persist effects of the first render
Boot(store) ==
  IF InitialiserThrows(store)
    THEN [appState |-> Crashed, session |-> EmptySession, uploadData |-> 0,
          lastTarget |-> NoTarget, storage |-> store]
    ELSE LET s == getInitialSession(store)
             u == IF Unreadable(store.uploadData) THEN 0 ELSE store.uploadData.val
             t == IF Unreadable(store.lastTarget) THEN NoTarget ELSE store.lastTarget.val
         IN [appState |-> IF Len(s.analyses) > 0 THEN STATES.RESULTS ELSE STATES.UPLOAD,
             session |-> s,
             uploadData |-> u,
             lastTarget |-> t,
             storage |-> [session |-> stringifySession(s),
                          uploadData |-> AfterRead(store.uploadData, 0),
                          lastTarget |-> AfterRead(store.lastTarget, NoTarget)]]

EmptyStorage ==
  [session |-> Item("absent", NoSessionText), uploadData |-> Item("absent", 0),
   lastTarget |-> Item("absent", NoTarget)]

\* what a browser may hold under the three keys when the page is first opened
InitialStorage ==
  [session : {Item(tag, NoSessionText) : tag \in {"absent", "corrupt", "null", "object"}},
   uploadData : {Item(tag, 0) : tag \in {"absent", "corrupt"}},
   lastTarget : {Item(tag, NoTarget) : tag \in {"absent", "corrupt"}}]

Started(store) ==
  /\ appState = Boot(store).appState
  /\ session = Boot(store).session
  /\ uploadData = Boot(store).uploadData
  /\ lastTarget = Boot(store).lastTarget
  /\ storage = Boot(store).storage
  /\ error = NoError
  /\ isUploading = FALSE
  /\ uploadComplete = FALSE
  /\ analyzeStarted = FALSE
  /\ analyzeComplete = FALSE
  /\ pendingMode = "new"
  /\ uploads = EmptyBag
  /\ requests = EmptyBag
  /\ timers = 0
  /\ lastRequest = NoRequest

AppInit ==
  /\ nextJob = 1
  /\ \E store \in InitialStorage : Started(store)

\* the page is loaded again: the memory of the old page is gone, its requests
\* and timers with it
Reload ==
  /\ appState' = Boot(storage).appState
  /\ session' = Boot(storage).session
  /\ uploadData' = Boot(storage).uploadData
  /\ lastTarget' = Boot(storage).lastTarget
  /\ storage' = Boot(storage).storage
  /\ error' = NoError
  /\ isUploading' = FALSE
  /\ uploadComplete' = FALSE
  /\ analyzeStarted' = FALSE
  /\ analyzeComplete' = FALSE
  /\ pendingMode' = "new"
  /\ uploads' = EmptyBag
  /\ requests' = EmptyBag
  /\ timers' = 0
  /\ lastRequest' = NoRequest
  /\ UNCHANGED nextJob
  /\ UNCHANGED <<boardVars, trimVars, pickVars, targetVars>>

(***************************************************************************)
(* App: the session.                                                       *)
(***************************************************************************)
\* buildPriorContext(): null without analyses, else the last analysis and the totals
buildPriorContext ==
  IF Len(session.analyses) = 0
    THEN [NoPriorContext EXCEPT !.tag = "null"]
    ELSE [tag |-> "context",
          last |-> session.analyses[Len(session.analyses)].data,
          context |-> [session.matchContext EXCEPT !.clipsSummary = NoSummary],
          clipNumber |-> session.matchContext.lastClipIndex + 1]

\* events.filter(e => e.type?.toLowerCase().includes(word) || ...).length
CountEvents(events, words) ==
  Cardinality({i \in 1..Len(events) :
                 \E w \in words : includes(toLowerCase(events[i].type), w)})

Recur_Once(issues, key) ==
  [k \in DOMAIN issues \cup {key} |-> IF k = key THEN 1 ELSE issues[k]]

\* newContext.recurringIssues[key] = (newContext.recurringIssues[key] || 0) + 1
Recur(issues, key) ==
  IF key \in DOMAIN issues
    THEN [issues EXCEPT ![key] = @ + 1]
    ELSE [k \in DOMAIN issues \cup {key} |-> IF k = key THEN 1 ELSE issues[k]]

RECURSIVE TrackIssues(_, _, _)
\* pointers.forEach, from pointer i on
TrackIssues(issues, pointers, i) ==
  IF i > Len(pointers)
    THEN issues
    ELSE LET key == toLowerCase(pointers[i].title)
         IN TrackIssues(IF Len(key) > 0 THEN Recur(issues, key) ELSE issues,
                        pointers, i + 1)

\* the updater of updateMatchContext
NewContext(prev, analysisResult) ==
  LET data == AnalysisData[analysisResult.data]
  IN [prev.matchContext EXCEPT
        !.totalShotAttempts = @ + CountEvents(data.events,
                                  {<<"s", "h", "o", "t">>,
                                   <<"t", "a", "k", "e", "d", "o", "w", "n">>}),
        !.totalLevelChanges = @ + CountEvents(data.events, {<<"l", "e", "v", "e", "l">>}),
        !.totalSprawls = @ + CountEvents(data.events, {<<"s", "p", "r", "a", "w", "l">>}),
        !.recurringIssues = TrackIssues(@, data.pointers, 1),
        !.lastClipIndex = @ + 1,
        !.clipsSummary = ClipsSummary(prev.matchContext.lastClipIndex + 1)]

updateMatchContext(prev, analysisResult) ==
  [prev EXCEPT !.matchContext = NewContext(prev, analysisResult)]

\* What the object prev reads once the updater has run.  newContext is a shallow
\* copy of prev.matchContext, so its recurringIssues is the map object of prev,
\* and the forEach writes the counts into that object; the totals, the clip
\* index and the summary are assigned to the copy.
prevAfterUpdate(prev, analysisResult) ==
  [prev EXCEPT !.matchContext.recurringIssues =
                  NewContext(prev, analysisResult).recurringIssues]

\* { ...data, clipIndex, timestamp, isContinuation, duration_analyzed } for the
\* response data of request r; the duration is that of the job's upload
AnalysisResult(r, data) ==
  [data |-> data, job_id |-> r.job, clipIndex |-> r.clip_index,
   isContinuation |-> r.continuation, duration_analyzed |-> r.job]

AppendAnalysis_Replace(prev, analysisResult) ==
  [prev EXCEPT !.analyses = <<analysisResult>>]

AppendAnalysis(prev, analysisResult) ==
  [prev EXCEPT !.analyses = Append(@, analysisResult)]

(***************************************************************************)
(* App: requests.  A request holds what its handler call closed over.      *)
(***************************************************************************)
Uploading == BagToSet(uploads)
Analyzing == BagToSet(requests)

SingleRequest(c) ==
  LET isContinuation == pendingMode = "continuation"
  IN [kind |-> "single", job |-> uploadData, c |-> c,
      continuation |-> isContinuation,
      clip_index |-> session.matchContext.lastClipIndex + 1,
      prior_context |-> IF isContinuation THEN buildPriorContext ELSE NoPriorContext]

AnchorsRequest(c) ==
  [kind |-> "anchors", job |-> uploadData, c |-> c, continuation |-> FALSE,
   clip_index |-> 0, prior_context |-> NoPriorContext]

CanRequest ==
  /\ BagCardinality(requests) < MaxInFlight
  /\ Len(session.analyses) + BagCardinality(requests) < MaxAnalyses

(***************************************************************************)
(* App: the handlers.  A handler is enabled where a rendered control calls *)
(* it.  The render of ANCHOR_SELECT passes an onBack that this revision    *)
(* does not define and no handler sets TARGET_SELECT, so the two analyze   *)
(* handlers are taken as their code has them: callable from the selection  *)
(* screen of an uploaded job.                                              *)
(***************************************************************************)
Running == appState # Crashed

handleUpload ==
  /\ appState = STATES.UPLOAD
  /\ ~isUploading
  /\ nextJob <= MaxUploads
  /\ BagCardinality(uploads) < MaxInFlight
  /\ isUploading' = TRUE
  /\ error' = NoError
  /\ uploadComplete' = FALSE
  /\ analyzeStarted' = FALSE
  /\ analyzeComplete' = FALSE
  /\ uploads' = Issue(uploads, nextJob)
  /\ nextJob' = nextJob + 1
  /\ UNCHANGED <<appState, session, uploadData, lastTarget, pendingMode, storage,
                 requests, timers, lastRequest>>
  /\ UNCHANGED <<boardVars, trimVars, pickVars, targetVars>>

UploadOk(j) ==
  /\ Running
  /\ j \in Uploading
  /\ uploads' = Settle(uploads, j)
  /\ uploadData' = j
  /\ storage' = [storage EXCEPT !.uploadData = stringify(j)]
  /\ uploadComplete' = TRUE
  /\ isUploading' = FALSE
  /\ appState' = STATES.ANCHOR_SELECT
  /\ UNCHANGED <<session, error, analyzeStarted, analyzeComplete, lastTarget,
                 pendingMode, nextJob, requests, timers, lastRequest>>
  /\ UNCHANGED <<boardVars, trimVars, pickVars, targetVars>>

UploadFail(j) ==
  /\ Running
  /\ j \in Uploading
  /\ uploads' = Settle(uploads, j)
  /\ error' = UploadFailed
  /\ isUploading' = FALSE
  /\ UNCHANGED <<appState, session, uploadData, uploadComplete, analyzeStarted,
                 analyzeComplete, lastTarget, pendingMode, storage, nextJob,
                 requests, timers, lastRequest>>
  /\ UNCHANGED <<boardVars, trimVars, pickVars, targetVars>>

\* handleAnalyze / handleAnalyzeWithAnchors up to the await of the fetch
Submit(target, request) ==
  /\ uploadData # 0
  /\ lastTarget' = target
  /\ storage' = [storage EXCEPT !.lastTarget = stringify(target)]
  /\ appState' = STATES.ANALYZING
  /\ error' = NoError
  /\ analyzeStarted' = TRUE
  /\ analyzeComplete' = FALSE
  /\ requests' = Issue(requests, request)
  /\ lastRequest' = request
  /\ UNCHANGED <<session, uploadData, isUploading, uploadComplete, pendingMode,
                 nextJob, uploads, timers>>
  /\ UNCHANGED <<boardVars, trimVars, pickVars, targetVars>>

Analyze(c) == Submit(SingleTarget(c), SingleRequest(c))

AnalyzeWithAnchors(c) == Submit(AnchorsTarget(c), AnchorsRequest(c))

SelectionShown ==
  /\ appState \in {STATES.ANCHOR_SELECT, STATES.TARGET_SELECT}
  /\ uploadData # 0

App_handleAnalyze(c) ==
  /\ SelectionShown
  /\ CanRequest
  /\ Analyze(c)

handleAnalyzeWithAnchors(c) ==
  /\ SelectionShown
  /\ CanRequest
  /\ AnalyzeWithAnchors(c)

Catch_Silent(message) ==
  /\ error' = error
  /\ analyzeComplete' = FALSE

\* catch (err): setError(err.message); setAnalyzeComplete(false)
Catch(message) ==
  /\ error' = message
  /\ analyzeComplete' = FALSE

\* the response is ok.  handleAnalyze appends and folds; handleAnalyzeWithAnchors
\* calls setResults, which this revision does not define: the ReferenceError is
\* caught by the handler's own catch.
AnalysisOk(r, data) ==
  /\ Running
  /\ r \in Analyzing
  /\ requests' = Settle(requests, r)
  /\ IF r.kind = "single"
       THEN /\ timers < MaxTimers
            /\ session' = updateMatchContext(
                            AppendAnalysis(session, AnalysisResult(r, data)),
                            AnalysisResult(r, data))
            /\ storage' = [storage EXCEPT !.session = stringifySession(session')]
            /\ analyzeComplete' = TRUE
            /\ timers' = timers + 1
            /\ UNCHANGED error
       ELSE /\ Catch(SetResultsUndefined)
            /\ UNCHANGED <<session, storage, timers>>
  /\ UNCHANGED <<appState, uploadData, isUploading, uploadComplete, analyzeStarted,
                 lastTarget, pendingMode, nextJob, uploads, lastRequest>>
  /\ UNCHANGED <<boardVars, trimVars, pickVars, targetVars>>

\* the fetch rejected or the response is not ok
AnalysisFail(r) ==
  /\ Running
  /\ r \in Analyzing
  /\ requests' = Settle(requests, r)
  /\ Catch(AnalysisFailed)
  /\ UNCHANGED <<appState, session, uploadData, isUploading, uploadComplete,
                 analyzeStarted, lastTarget, pendingMode, storage, nextJob,
                 uploads, timers, lastRequest>>
  /\ UNCHANGED <<boardVars, trimVars, pickVars, targetVars>>

\* the setTimeout callback of handleAnalyze
CompletionTimer ==
  /\ Running
  /\ timers > 0
  /\ timers' = timers - 1
  /\ appState' = STATES.RESULTS
  /\ pendingMode' = "new"
  /\ UNCHANGED <<session, uploadData, error, isUploading, uploadComplete,
                 analyzeStarted, analyzeComplete, lastTarget, storage, nextJob,
                 uploads, requests, lastRequest>>
  /\ UNCHANGED <<boardVars, trimVars, pickVars, targetVars>>

\* the Retry button of AnalysisStep is rendered while error is set
handleRetry ==
  /\ appState = STATES.ANALYZING
  /\ error # NoError
  /\ IF lastTarget # NoTarget /\ uploadData # 0
       THEN /\ CanRequest
            /\ IF lastTarget.kind = "anchors"
                 THEN AnalyzeWithAnchors(lastTarget.c)
                 ELSE Analyze(lastTarget.c)
       ELSE /\ appState' = STATES.ANCHOR_SELECT
            /\ error' = NoError
            /\ UNCHANGED <<session, uploadData, isUploading, uploadComplete,
                           analyzeStarted, analyzeComplete, lastTarget, pendingMode,
                           storage, nextJob, uploads, requests, timers, lastRequest>>
            /\ UNCHANGED <<boardVars, trimVars, pickVars, targetVars>>

\* what handleClearChat, handleLogoClick, handleUploadAnother and
\* handleUploadContinuation have in common
BackToUpload ==
  /\ appState' = STATES.UPLOAD
  /\ uploadData' = 0
  /\ error' = NoError
  /\ isUploading' = FALSE
  /\ uploadComplete' = FALSE
  /\ analyzeStarted' = FALSE
  /\ analyzeComplete' = FALSE
  /\ lastTarget' = NoTarget
  /\ UNCHANGED <<nextJob, uploads, requests, timers, lastRequest>>
  /\ UNCHANGED <<boardVars, trimVars, pickVars, targetVars>>

ForgetUpload_KeepTarget(store) ==
  [store EXCEPT !.uploadData = Item("absent", 0)]

ForgetUpload(store) ==
  [store EXCEPT !.uploadData = Item("absent", 0),
                !.lastTarget = Item("absent", NoTarget)]

handleClearChat_KeepMode ==
  /\ Running
  /\ BackToUpload
  /\ pendingMode' = pendingMode
  /\ session' = EmptySession
  /\ storage' = [ForgetUpload(storage) EXCEPT !.session = stringifySession(EmptySession)]

\* the three removeItem calls, then the persist effect of the new session
handleClearChat ==
  /\ Running
  /\ BackToUpload
  /\ pendingMode' = "new"
  /\ session' = EmptySession
  /\ storage' = [ForgetUpload(storage) EXCEPT !.session = stringifySession(EmptySession)]

handleLogoClick ==
  /\ Running
  /\ BackToUpload
  /\ storage' = ForgetUpload(storage)
  /\ UNCHANGED <<session, pendingMode>>

ResultsShown ==
  /\ appState = STATES.RESULTS
  /\ Len(session.analyses) > 0

handleUploadAnother ==
  /\ ResultsShown
  /\ BackToUpload
  /\ pendingMode' = "new"
  /\ storage' = ForgetUpload(storage)
  /\ UNCHANGED session

handleUploadContinuation ==
  /\ ResultsShown
  /\ BackToUpload
  /\ pendingMode' = "continuation"
  /\ storage' = ForgetUpload(storage)
  /\ UNCHANGED session

handleBackToResults ==
  /\ appState = STATES.UPLOAD
  /\ Len(session.analyses) > 0
  /\ appState' = STATES.RESULTS
  /\ UNCHANGED <<session, uploadData, error, isUploading, uploadComplete,
                 analyzeStarted, analyzeComplete, lastTarget, pendingMode, storage,
                 nextJob, uploads, requests, timers, lastRequest>>
  /\ UNCHANGED <<boardVars, trimVars, pickVars, targetVars>>

(***************************************************************************)
(* TrimStep (SpecTrim).  Times are tenths of a second, the step of the      *)
(* three sliders.  A frame object URL is the number URL.createObjectURL     *)
(* gave it, 0 is null.  A fetchFrame call keeps the frameUrl of the render  *)
(* that created its closure.                                                *)
(***************************************************************************)
Seconds(s) == s * SLIDER_STEPS

NoUrl == 0

\* the positions the sliders are moved to
Stops == {0, Seconds(1), Seconds(MIN_CLIP_LENGTH), Seconds(MaxDuration)}

effectiveDuration == trimEnd - trimStart
isValidTrim == effectiveDuration >= Seconds(MIN_CLIP_LENGTH) /\ trimStart < trimEnd

TrimIdle ==
  /\ trimMounted = FALSE
  /\ duration = 0
  /\ trimStart = 0
  /\ trimEnd = 0
  /\ currentPreviewTime = 0
  /\ trimFrameUrl = NoUrl
  /\ trimLoadingFrame = FALSE
  /\ isSaving = FALSE
  /\ trimError = "null"
  /\ previewTimer = [t |-> NoT, closure |-> NoUrl]
  /\ frameFetches = EmptyBag
  /\ trimRequests = {}
  /\ liveUrls = {}
  /\ nextUrl = 1
  /\ trimLog = <<>>
  /\ trimDone = <<>>

\* setCurrentPreviewTime(v): a changed value renders again, and the debounce
\* effect of that render replaces the timer
Preview(v) ==
  IF v # currentPreviewTime
    THEN /\ currentPreviewTime' = v
         /\ previewTimer' = [t |-> v, closure |-> trimFrameUrl]
    ELSE UNCHANGED <<currentPreviewTime, previewTimer>>

\* the preview slider
Scrub(v) ==
  /\ trimMounted
  /\ v >= 0 /\ v <= duration /\ v # currentPreviewTime
  /\ Preview(v)
  /\ UNCHANGED <<trimMounted, duration, trimStart, trimEnd, trimFrameUrl,
                 trimLoadingFrame, isSaving, trimError, frameFetches,
                 trimRequests, liveUrls, nextUrl, trimLog, trimDone>>
  /\ UNCHANGED <<boardVars, appVars, pickVars, targetVars>>

\* the 150 ms timer of the debounce effect fires
PreviewTimerFires ==
  /\ trimMounted
  /\ previewTimer # [t |-> NoT, closure |-> NoUrl]
  /\ BagCardinality(frameFetches) < MaxInFlight
  /\ trimLoadingFrame' = TRUE
  /\ frameFetches' = frameFetches (+) SetToBag({previewTimer})
  /\ previewTimer' = [t |-> NoT, closure |-> NoUrl]
  /\ UNCHANGED <<trimMounted, duration, trimStart, trimEnd, currentPreviewTime,
                 trimFrameUrl, isSaving, trimError, trimRequests, liveUrls,
                 nextUrl, trimLog, trimDone>>
  /\ UNCHANGED <<boardVars, appVars, pickVars, targetVars>>

\* The frame response arrives.  When it is ok the blob gets a new object URL,
\* the frameUrl of the closure is revoked and the new URL is installed.
TrimFrameResponse(f, ok) ==
  /\ f \in BagToSet(frameFetches)
  /\ frameFetches' = frameFetches (-) SetToBag({f})
  /\ IF ok
       THEN /\ nextUrl <= MaxUrls
            /\ liveUrls' = (liveUrls \cup {nextUrl}) \ {f.closure}
            /\ nextUrl' = nextUrl + 1
            /\ trimFrameUrl' = (IF trimMounted THEN nextUrl ELSE trimFrameUrl)
       ELSE UNCHANGED <<liveUrls, nextUrl, trimFrameUrl>>
  /\ trimLoadingFrame' = (IF trimMounted THEN FALSE ELSE trimLoadingFrame)
  /\ UNCHANGED <<trimMounted, duration, trimStart, trimEnd, currentPreviewTime,
                 isSaving, trimError, previewTimer, trimRequests, trimLog, trimDone>>
  /\ UNCHANGED <<boardVars, appVars, pickVars, targetVars>>

\* the start slider: min 0, max Math.max(0, trimEnd - MIN_CLIP_LENGTH)
handleStartChange(newStart) ==
  /\ trimMounted
  /\ newStart >= 0 /\ newStart <= (IF 0 >= trimEnd - Seconds(MIN_CLIP_LENGTH) THEN 0 ELSE trimEnd - Seconds(MIN_CLIP_LENGTH))
  /\ newStart # trimStart
  /\ trimStart' = newStart
  /\ IF currentPreviewTime < newStart
       THEN Preview(newStart)
       ELSE UNCHANGED <<currentPreviewTime, previewTimer>>
  /\ UNCHANGED <<trimMounted, duration, trimEnd, trimFrameUrl, trimLoadingFrame,
                 isSaving, trimError, frameFetches, trimRequests, liveUrls,
                 nextUrl, trimLog, trimDone>>
  /\ UNCHANGED <<boardVars, appVars, pickVars, targetVars>>

\* the end slider: min Math.min(duration, trimStart + MIN_CLIP_LENGTH), max duration
handleEndChange(newEnd) ==
  /\ trimMounted
  /\ newEnd >= (IF duration <= trimStart + Seconds(MIN_CLIP_LENGTH) THEN duration ELSE trimStart + Seconds(MIN_CLIP_LENGTH)) /\ newEnd <= duration
  /\ newEnd # trimEnd
  /\ trimEnd' = newEnd
  /\ IF currentPreviewTime > newEnd
       THEN Preview(newEnd)
       ELSE UNCHANGED <<currentPreviewTime, previewTimer>>
  /\ UNCHANGED <<trimMounted, duration, trimStart, trimFrameUrl, trimLoadingFrame,
                 isSaving, trimError, frameFetches, trimRequests, liveUrls,
                 nextUrl, trimLog, trimDone>>
  /\ UNCHANGED <<boardVars, appVars, pickVars, targetVars>>

\* the preset buttons: full video, first 15 s, last 15 s, middle 15 s
Preset(k) ==
  /\ trimMounted
  /\ trimStart' = (CASE k = 1 -> 0
                      [] k = 2 -> 0
                      [] k = 3 -> (IF 0 >= duration - Seconds(15) THEN 0 ELSE duration - Seconds(15))
                      [] k = 4 -> (IF 0 >= (duration \div 2) - 75 THEN 0 ELSE (duration \div 2) - 75))
  /\ trimEnd' = (CASE k = 1 -> duration
                    [] k = 2 -> (IF duration <= Seconds(15) THEN duration ELSE Seconds(15))
                    [] k = 3 -> duration
                    [] k = 4 -> (IF duration <= (duration \div 2) + 75 THEN duration ELSE (duration \div 2) + 75))
  /\ <<trimStart', trimEnd'>> # <<trimStart, trimEnd>>
  /\ UNCHANGED <<trimMounted, duration, currentPreviewTime, trimFrameUrl,
                 trimLoadingFrame, isSaving, trimError, previewTimer, frameFetches,
                 trimRequests, liveUrls, nextUrl, trimLog, trimDone>>
  /\ UNCHANGED <<boardVars, appVars, pickVars, targetVars>>

\* a set-trim request: its body, the handler that sent it, and the
\* effectiveDuration of the handler's closure
TrimRequest(start, end, via) ==
  [trim_start |-> start, trim_end |-> end, via |-> via, effective |-> end - start]
\* the argument of onTrimComplete
Payload(start, end, eff) ==
  [trim_start |-> start, trim_end |-> end, effective_duration |-> eff]

\* the Continue button (disabled while !isValidTrim || isSaving)
handleContinue ==
  /\ trimMounted
  /\ isValidTrim /\ ~isSaving
  /\ Len(trimLog) < MaxSaves
  /\ IF ~isValidTrim
       THEN /\ trimError' = "Trimmed clip must be at least 3 seconds"
            /\ UNCHANGED <<isSaving, trimRequests, trimLog>>
       ELSE /\ isSaving' = TRUE
            /\ trimError' = "null"
            /\ trimRequests' = trimRequests \cup {TrimRequest(trimStart, trimEnd, "continue")}
            /\ trimLog' = Append(trimLog, [trim_start |-> trimStart, trim_end |-> trimEnd])
  /\ UNCHANGED <<trimMounted, duration, trimStart, trimEnd, currentPreviewTime,
                 trimFrameUrl, trimLoadingFrame, previewTimer, frameFetches,
                 liveUrls, nextUrl, trimDone>>
  /\ UNCHANGED <<boardVars, appVars, pickVars, targetVars>>

\* the Skip button (disabled while isSaving)
handleSkipTrim ==
  /\ trimMounted
  /\ ~isSaving
  /\ Len(trimLog) < MaxSaves
  /\ trimStart' = 0
  /\ trimEnd' = duration
  /\ isSaving' = TRUE
  /\ trimRequests' = trimRequests \cup {TrimRequest(0, duration, "skip")}
  /\ trimLog' = Append(trimLog, [trim_start |-> 0, trim_end |-> duration])
  /\ UNCHANGED <<trimMounted, duration, currentPreviewTime, trimFrameUrl,
                 trimLoadingFrame, trimError, previewTimer, frameFetches,
                 liveUrls, nextUrl, trimDone>>
  /\ UNCHANGED <<boardVars, appVars, pickVars, targetVars>>

\* What the rest of each handler does with the outcome of its request.
\* outcome: "ok" (data.effective_duration = eff, 0 when absent), "rejected"
\* (a non-2xx response with or without a detail), "unreachable" (fetch rejects).

AfterContinue(r, outcome, eff, detail) ==
  CASE outcome = "ok" ->
         /\ trimDone' = Append(trimDone, Payload(r.trim_start, r.trim_end,
                                 IF eff # 0 THEN eff ELSE r.effective))
         /\ UNCHANGED trimError
    [] outcome = "rejected" ->
         /\ trimError' = (IF ~trimMounted THEN trimError
                          ELSE IF detail THEN "errorData.detail" ELSE "Failed to save trim settings")
         /\ UNCHANGED trimDone
    [] outcome = "unreachable" ->
         /\ trimError' = (IF trimMounted THEN "Failed to save trim settings" ELSE trimError)
         /\ UNCHANGED trimDone

AfterSkip_GiveUp(r, outcome, eff, detail) ==
  IF outcome = "ok"
    THEN /\ trimDone' = Append(trimDone, Payload(0, r.trim_end, r.trim_end))
         /\ UNCHANGED trimError
    ELSE UNCHANGED <<trimDone, trimError>>

AfterSkip(r, outcome, eff, detail) ==
  /\ trimDone' = Append(trimDone, Payload(0, r.trim_end, r.trim_end))
  /\ UNCHANGED trimError

TrimResponse(r, outcome, eff, detail) ==
  /\ r \in trimRequests
  /\ trimRequests' = trimRequests \ {r}
  /\ IF r.via = "skip"
       THEN AfterSkip(r, outcome, eff, detail)
       ELSE AfterContinue(r, outcome, eff, detail)
  /\ isSaving' = (IF trimMounted THEN FALSE ELSE isSaving)
  /\ UNCHANGED <<trimMounted, duration, trimStart, trimEnd, currentPreviewTime,
                 trimFrameUrl, trimLoadingFrame, previewTimer, frameFetches,
                 liveUrls, nextUrl, trimLog>>
  /\ UNCHANGED <<boardVars, appVars, pickVars, targetVars>>

\* The parent stops rendering the step.  The cleanup of the mount effect holds
\* the frameUrl of the first render, null; the cleanup of the debounce effect
\* clears the timer.
TrimUnmount ==
  /\ trimMounted
  /\ trimMounted' = FALSE
  /\ previewTimer' = [t |-> NoT, closure |-> NoUrl]
  /\ UNCHANGED <<duration, trimStart, trimEnd, currentPreviewTime, trimFrameUrl,
                 trimLoadingFrame, isSaving, trimError, frameFetches, trimRequests,
                 liveUrls, nextUrl, trimLog, trimDone>>
  /\ UNCHANGED <<boardVars, appVars, pickVars, targetVars>>

(***************************************************************************)
(* UploadStep and InlineUploader (SpecPick): the file the user picked, the  *)
(* validation error, and the calls of onUpload.  A file is its name, its    *)
(* MIME type and its size in bytes.                                         *)
(***************************************************************************)
MAX_FILE_SIZE == 500 * 1024 * 1024
VALID_EXTENSIONS == {<<"m", "p", "4">>, <<"m", "o", "v">>, <<"a", "v", "i">>,
                     <<"m", "k", "v">>, <<"w", "e", "b", "m">>}
VALID_TYPES == {"video/mp4", "video/quicktime", "video/x-msvideo",
                "video/x-matroska", "video/webm"}

NoFile == [name |-> <<>>, type |-> "null", size |-> -1]

\* the files the user picks or drops
Files == [name : { <<"a", ".", "m", "p", "4">>, <<"a", ".", "M", "K", "V">>,
                   <<"m", "o", "v">>, <<"a", ".", "t", "x", "t">> },
          type : {"video/webm", "", "text/plain"},
          size : {1, MAX_FILE_SIZE, MAX_FILE_SIZE + 1}]

\* name.split('.').pop()
LastSegment(name) ==
  LET dots == {i \in 1..Len(name) : name[i] = "."}
  IN IF dots = {} THEN name
     ELSE SubSeq(name, (CHOOSE i \in dots : \A k \in dots : k <= i) + 1, Len(name))

validateFile(selectedFile) ==
  LET ext == toLowerCase(LastSegment(selectedFile.name))
  IN IF selectedFile.type \notin VALID_TYPES /\ ext \notin VALID_EXTENSIONS
       THEN "Invalid file type. Please upload MP4, MOV, AVI, MKV, or WebM."
     ELSE IF selectedFile.size > MAX_FILE_SIZE
       THEN "File too large. Maximum size is 500MB."
     ELSE "null"

PickIdle ==
  /\ uploader = "none"
  /\ file = NoFile
  /\ fileError = "null"
  /\ parentUploading = FALSE
  /\ clearTimers = 0
  /\ offered = NoFile

\* the file input's onChange and handleDrop
handleFileSelect(selectedFile) ==
  /\ IF validateFile(selectedFile) # "null"
       THEN /\ fileError' = validateFile(selectedFile)
            /\ file' = NoFile
       ELSE /\ fileError' = "null"
            /\ file' = selectedFile
  /\ UNCHANGED <<uploader, parentUploading, clearTimers, offered>>
  /\ UNCHANGED <<boardVars, appVars, trimVars, targetVars>>

handleClear ==
  /\ file # NoFile
  /\ file' = NoFile
  /\ fileError' = "null"
  /\ UNCHANGED <<uploader, parentUploading, clearTimers, offered>>
  /\ UNCHANGED <<boardVars, appVars, trimVars, targetVars>>

\* The upload button.  UploadStep: file && onUpload(file), disabled while !file
\* || isUploading.  InlineUploader: handleUpload, disabled while isUploading; it
\* also arms the 500 ms timer that clears the file.
Pick_handleUpload ==
  /\ ~parentUploading
  /\ file # NoFile
  /\ offered' = file
  /\ parentUploading' = TRUE
  /\ IF uploader = "InlineUploader"
       THEN clearTimers < MaxTimers /\ clearTimers' = clearTimers + 1
       ELSE UNCHANGED clearTimers
  /\ UNCHANGED <<uploader, file, fileError>>
  /\ UNCHANGED <<boardVars, appVars, trimVars, targetVars>>

ClearTimerFires ==
  /\ clearTimers > 0
  /\ clearTimers' = clearTimers - 1
  /\ file' = NoFile
  /\ UNCHANGED <<uploader, fileError, parentUploading, offered>>
  /\ UNCHANGED <<boardVars, appVars, trimVars, targetVars>>

\* the parent's upload ends and it passes isUploading = false again
UploadEnds ==
  /\ parentUploading
  /\ parentUploading' = FALSE
  /\ UNCHANGED <<uploader, file, fileError, clearTimers, offered>>
  /\ UNCHANGED <<boardVars, appVars, trimVars, targetVars>>

(***************************************************************************)
(* ResultsStep: the recurring issues of the session summary.  Object.entries *)
(* lists the keys of recurringIssues in the order they were inserted: the   *)
(* order in which the folds met the titles.                                 *)
(***************************************************************************)
\* Object.entries(matchContext.recurringIssues || {}).filter(([_, count]) =>
\* count >= 2).sort((a, b) => b[1] - a[1]), as the set of the entries and the
\* order sort leaves them in (it is stable)
SortedRecurring(s) ==
  LET issues == s.matchContext.recurringIssues
      pointers(a) == AnalysisData[s.analyses[a].data].pointers
      \* where the folds met the title k: clip a, pointer n
      first(k) ==
        LET at == UNION {{a * 100 + n :
                            n \in {m \in 1..Len(pointers(a)) :
                                     toLowerCase(pointers(a)[m].title) = k}} :
                         a \in 1..Len(s.analyses)}
        IN IF at = {} THEN 0 ELSE CHOOSE n \in at : \A m \in at : n <= m
      kept == {k \in DOMAIN issues : issues[k] >= 2}
  IN [entries |-> {<<k, issues[k]>> : k \in kept},
      before |-> {<<k, q>> \in kept \X kept :
                    \/ issues[k] > issues[q]
                    \/ issues[k] = issues[q] /\ first(k) < first(q)}]

\* SessionSummary: recurringIssues, the first three of the sorted entries
SessionSummary_Weak(s) ==
  LET issues == s.matchContext.recurringIssues
  IN {<<k, issues[k]>> : k \in {q \in DOMAIN issues : issues[q] >= 1}}

SessionSummary(s) ==
  LET sorted == SortedRecurring(s)
  IN {e \in sorted.entries :
        Cardinality({q \in sorted.entries : <<q[1], e[1]>> \in sorted.before}) < 3}

\* buildSessionSummaryText: the '  • issue (count x)' lines under RECURRING ISSUES
buildSessionSummaryText(s) == SortedRecurring(s).entries

(***************************************************************************)
(* TargetSelectStep (SpecTarget), the single-box flow of one uploaded job.  *)
(* Times are positions of the slider.  A call of fetchFrameAndBoxes is the  *)
(* callback of one render and reads the selectedTarget of that render; only *)
(* whether it is null matters.  The step ends with its onAnalyze call.      *)
(***************************************************************************)
TargetIdle ==
  /\ currentTime = 0
  /\ targetFrame = NoT
  /\ targetBoxes = <<>>
  /\ selectedTarget = NoDet
  /\ targetLoading = FALSE
  /\ sliderTimer = [t |-> NoT, selected |-> FALSE]
  /\ targetFetches = EmptyBag
  /\ sent = <<>>

\* the slider's onChange: the new time is shown at once, the timer is replaced
handleSliderChange(newTime) ==
  /\ sent = <<>>
  /\ newTime # currentTime
  /\ currentTime' = newTime
  /\ sliderTimer' = [t |-> newTime, selected |-> selectedTarget # NoDet]
  /\ UNCHANGED <<targetFrame, targetBoxes, selectedTarget, targetLoading,
                 targetFetches, sent>>
  /\ UNCHANGED <<boardVars, appVars, trimVars, pickVars>>

\* the 150 ms timer fires: setSelectedTarget(null), then fetchFrameAndBoxes up to
\* its first await
SliderTimerFires ==
  /\ sent = <<>>
  /\ sliderTimer.t # NoT
  /\ BagCardinality(targetFetches) < MaxInFlight
  /\ selectedTarget' = NoDet
  /\ targetLoading' = TRUE
  /\ targetFetches' = targetFetches (+)
       SetToBag({[kind |-> "frame", t |-> sliderTimer.t, selected |-> sliderTimer.selected]})
  /\ sliderTimer' = [t |-> NoT, selected |-> FALSE]
  /\ UNCHANGED <<currentTime, targetFrame, targetBoxes, sent>>
  /\ UNCHANGED <<boardVars, appVars, trimVars, pickVars>>

\* the frame response: ok, not ok (the boxes are fetched all the same), or the
\* fetch rejects (catch, then finally)
Target_FrameResponse(f, outcome) ==
  /\ sent = <<>>
  /\ f \in BagToSet(targetFetches) /\ f.kind = "frame"
  /\ targetFrame' = (IF outcome = "ok" THEN f.t ELSE targetFrame)
  /\ IF outcome = "failed"
       THEN /\ targetFetches' = targetFetches (-) SetToBag({f})
            /\ targetLoading' = FALSE
       ELSE /\ targetFetches' = (targetFetches (-) SetToBag({f})) (+)
                                  SetToBag({[f EXCEPT !.kind = "boxes"]})
            /\ UNCHANGED targetLoading
  /\ UNCHANGED <<currentTime, targetBoxes, selectedTarget, sliderTimer, sent>>
  /\ UNCHANGED <<boardVars, appVars, trimVars, pickVars>>

\* the boxes response, with n detections and auto_target the auto-th of them
\* (0: none), then finally
Target_BoxesResponse(f, ok, n, auto) ==
  /\ sent = <<>>
  /\ f \in BagToSet(targetFetches) /\ f.kind = "boxes"
  /\ targetFetches' = targetFetches (-) SetToBag({f})
  /\ IF ok
       THEN /\ targetBoxes' = Detections(1, f.t, n)
            /\ selectedTarget' = (IF ~f.selected /\ auto # 0
                                    THEN Detection(1, f.t, auto)
                                    ELSE selectedTarget)
       ELSE UNCHANGED <<targetBoxes, selectedTarget>>
  /\ targetLoading' = FALSE
  /\ UNCHANGED <<currentTime, targetFrame, sliderTimer, sent>>
  /\ UNCHANGED <<boardVars, appVars, trimVars, pickVars>>

\* a click on a detection drawn over the frame; the loading overlay covers them
setSelectedTarget(det) ==
  /\ sent = <<>>
  /\ targetFrame # NoT
  /\ ~targetLoading
  /\ \E k \in 1..Len(targetBoxes) : targetBoxes[k] = det
  /\ selectedTarget' = det
  /\ UNCHANGED <<currentTime, targetFrame, targetBoxes, targetLoading,
                 sliderTimer, targetFetches, sent>>
  /\ UNCHANGED <<boardVars, appVars, trimVars, pickVars>>

\* the Analyze button is disabled while selectedTarget is null
handleAnalyzeSelected ==
  /\ sent = <<>>
  /\ selectedTarget # NoDet
  /\ sent' = <<[target_box |-> selectedTarget.g, t_start |-> currentTime]>>
  /\ UNCHANGED <<currentTime, targetFrame, targetBoxes, selectedTarget,
                 targetLoading, sliderTimer, targetFetches>>
  /\ UNCHANGED <<boardVars, appVars, trimVars, pickVars>>

\* the Auto-detect button of this step: onAnalyze(null, currentTime)
Target_handleAutoSelect ==
  /\ sent = <<>>
  /\ Len(targetBoxes) > 0
  /\ sent' = <<[target_box |-> NoBox, t_start |-> currentTime]>>
  /\ UNCHANGED <<currentTime, targetFrame, targetBoxes, selectedTarget,
                 targetLoading, sliderTimer, targetFetches>>
  /\ UNCHANGED <<boardVars, appVars, trimVars, pickVars>>

(***************************************************************************)
(* The specifications.                                                     *)
(***************************************************************************)
InitBoard ==
  BoardInit /\ nextJob = 1 /\ Started(EmptyStorage) /\ TrimIdle /\ PickIdle /\ TargetIdle

InitApp == AppInit /\ BoardInit /\ TrimIdle /\ PickIdle /\ TargetIdle

NextApp ==
  \/ handleUpload
  \/ \E j \in Uploading : UploadOk(j)
  \/ \E j \in Uploading : UploadFail(j)
  \/ \E c \in Contracts : App_handleAnalyze(c)
  \/ \E c \in Contracts : handleAnalyzeWithAnchors(c)
  \/ \E r \in Analyzing : \E data \in 1..Len(AnalysisData) : AnalysisOk(r, data)
  \/ \E r \in Analyzing : AnalysisFail(r)
  \/ CompletionTimer
  \/ handleRetry
  \/ handleClearChat
  \/ handleLogoClick
  \/ handleUploadAnother
  \/ handleUploadContinuation
  \/ handleBackToResults
  \/ Reload

SpecApp == InitApp /\ [][NextApp]_vars

NextBoard ==
  \/ \E j \in Jobs : Mount(j)
  \/ \E j \in Jobs : ChangeJob(j)
  \/ Unmount
  \/ \E f \in Pending : \E n \in 0..MaxAnchors : AnchorsOk(f, n)
  \/ \E f \in Pending : AnchorsFail(f)
  \/ \E f \in Pending : \E ok \in BOOLEAN : FrameResponse(f, ok)
  \/ \E f \in Pending : FrameError(f)
  \/ \E f \in Pending : \E n \in 0..MaxBoxes : \E auto \in 0..n : BoxesOk(f, n, auto)
  \/ \E f \in Pending : BoxesFail(f)
  \/ \E index \in -1..MaxAnchors : goToAnchor(index)
  \/ \E k \in 1..Len(boxes) : handleSelectBox(boxes[k])
  \/ handleSkip
  \/ handleAutoSelect
  \/ handleAnalyze

SpecBoard == InitBoard /\ [][NextBoard]_vars

\* TrimStep after its first render and its mount effects: the initial
\* fetchFrame(0) is in flight and the debounce effect has armed its timer.
InitTrim ==
  /\ trimMounted = TRUE
  \* uploadData.duration_seconds: a clip of 2.9 s, of 3 s, and a longer one
  /\ duration \in {Seconds(MIN_CLIP_LENGTH) - 1, Seconds(MIN_CLIP_LENGTH), Seconds(MaxDuration)}
  /\ trimStart = 0
  /\ trimEnd = (IF duration # 0 THEN duration ELSE Seconds(10))
  /\ currentPreviewTime = 0
  /\ trimFrameUrl = NoUrl
  /\ trimLoadingFrame = TRUE
  /\ isSaving = FALSE
  /\ trimError = "null"
  /\ previewTimer = [t |-> 0, closure |-> NoUrl]
  /\ frameFetches = SetToBag({[t |-> 0, closure |-> NoUrl]})
  /\ trimRequests = {}
  /\ liveUrls = {}
  /\ nextUrl = 1
  /\ trimLog = <<>>
  /\ trimDone = <<>>
  /\ BoardInit /\ nextJob = 1 /\ Started(EmptyStorage) /\ PickIdle /\ TargetIdle

NextTrim ==
  \/ \E v \in Stops : Scrub(v)
  \/ PreviewTimerFires
  \/ \E f \in BagToSet(frameFetches) : \E ok \in BOOLEAN : TrimFrameResponse(f, ok)
  \/ \E v \in Stops : handleStartChange(v)
  \/ \E v \in Stops : handleEndChange(v)
  \/ \E k \in 1..4 : Preset(k)
  \/ handleContinue
  \/ handleSkipTrim
  \/ \E r \in trimRequests : \E outcome \in {"ok", "rejected", "unreachable"} :
       \E eff \in {0, r.effective} : \E detail \in BOOLEAN :
         TrimResponse(r, outcome, eff, detail)
  \/ TrimUnmount

SpecTrim == InitTrim /\ [][NextTrim]_vars

InitPick ==
  /\ uploader \in {"UploadStep", "InlineUploader"}
  /\ file = NoFile
  /\ fileError = "null"
  /\ parentUploading = FALSE
  /\ clearTimers = 0
  /\ offered = NoFile
  /\ BoardInit /\ nextJob = 1 /\ Started(EmptyStorage) /\ TrimIdle /\ TargetIdle

NextPick ==
  \/ \E f \in Files : handleFileSelect(f)
  \/ handleClear
  \/ Pick_handleUpload
  \/ ClearTimerFires
  \/ UploadEnds

SpecPick == InitPick /\ [][NextPick]_vars

\* TargetSelectStep after its first render and its mount effect: the fetch for
\* t = 0 is in flight, by the callback of the render that has no target yet.
InitTarget ==
  /\ currentTime = 0
  /\ targetFrame = NoT
  /\ targetBoxes = <<>>
  /\ selectedTarget = NoDet
  /\ targetLoading = TRUE
  /\ sliderTimer = [t |-> NoT, selected |-> FALSE]
  /\ targetFetches = SetToBag({[kind |-> "frame", t |-> 0, selected |-> FALSE]})
  /\ sent = <<>>
  /\ BoardInit /\ nextJob = 1 /\ Started(EmptyStorage) /\ TrimIdle /\ PickIdle

NextTarget ==
  \/ \E newTime \in 0..MaxTime : handleSliderChange(newTime)
  \/ SliderTimerFires
  \/ \E f \in BagToSet(targetFetches) : \E outcome \in {"ok", "not ok", "failed"} :
       Target_FrameResponse(f, outcome)
  \/ \E f \in BagToSet(targetFetches) : \E ok \in BOOLEAN :
       \E n \in 0..MaxBoxes : \E auto \in 0..n : Target_BoxesResponse(f, ok, n, auto)
  \/ \E k \in 1..Len(targetBoxes) : setSelectedTarget(targetBoxes[k])
  \/ handleAnalyzeSelected
  \/ Target_handleAutoSelect

SpecTarget == InitTarget /\ [][NextTarget]_vars

(***************************************************************************)
(* Claims about the anchor board (SpecBoard).                              *)
(***************************************************************************)
Boxed(arr) == {k \in 1..Len(arr) : arr[k].box # NoBox}
Skips(arr) == {k \in 1..Len(arr) : arr[k].t # HoleT /\ arr[k].skipped}
Answered(arr) == Cardinality(Boxed(arr) \cup Skips(arr))

\* the timestamp of the current anchor
CurrentT ==
  IF currentAnchorIndex < Len(anchorTimestamps)
    THEN anchorTimestamps[currentAnchorIndex + 1]
    ELSE NoT

C2_MutualExclusion ==
  /\ [](\A k \in 1..Len(anchors) : ~(anchors[k].box # NoBox /\ anchors[k].skipped))
  /\ [][handleSkip =>
          /\ anchors'[currentAnchorIndex + 1].skipped
          /\ anchors'[currentAnchorIndex + 1].box = NoBox]_vars
  /\ [][\A k \in 1..Len(boxes) :
          handleSelectBox(boxes[k]) =>
            /\ ~anchors'[currentAnchorIndex + 1].skipped
            /\ anchors'[currentAnchorIndex + 1].box = boxes[k].g]_vars

\* one anchor of the board is boxed, another is skipped
C2_Witness ==
  /\ Interactive
  /\ Boxed(anchors) # {}
  /\ Skips(anchors) # {}

\* C3: the total the completion metrics report (anchorTimestamps.length) is the
\* length N of the anchor list in every state, and no select, skip, auto-select
\* or navigation lowers the answered count.
C3_TotalAndMonotone ==
  /\ [](Len(anchorTimestamps) = Len(anchors))
  /\ [][(\/ handleSkip
         \/ handleAutoSelect
         \/ \E k \in 1..Len(boxes) : handleSelectBox(boxes[k])
         \/ \E index \in -1..MaxAnchors : goToAnchor(index))
        => Answered(anchors') >= Answered(anchors)]_vars

\* C4: the response of a fetch that a later navigation superseded does not
\* overwrite what is displayed: whenever the displayed frame, boxes or auto-target
\* change to those of the mounted job, they are those of the current anchor
\* (stated for the fetches that navigation starts, once the board has loaded).
C4_StaleResponseIgnored ==
  [][(CurrentT # NoT /\ \A f \in Pending : ~f.init) =>
       /\ (frameUrl' # frameUrl /\ frameUrl'[1] = job) => frameUrl'[2] = CurrentT
       /\ (boxes' # boxes) =>
            \A k \in 1..Len(boxes') :
              boxes'[k].g[1] = job => boxes'[k].g[2] = CurrentT
       /\ (autoTarget' # autoTarget /\ autoTarget'.g[1] = job) =>
            autoTarget'.g[2] = CurrentT]_vars

\* C7: once the board shows another job, what the fetches of the abandoned job
\* return is ignored: the displayed frame, boxes, auto-target and frame size only
\* ever change to values fetched for the job the board is mounted for.
C7_AbandonedJobIgnored ==
  [][mounted' =>
       /\ frameUrl' # frameUrl => frameUrl'[1] = job'
       /\ boxes' # boxes => \A k \in 1..Len(boxes') : boxes'[k].g[1] = job'
       /\ (autoTarget' # autoTarget /\ autoTarget' # NoDet) => autoTarget'.g[1] = job'
       /\ frameWidth' # frameWidth => frameWidth' = job']_vars

(***************************************************************************)
(* Claims about the App controller (SpecApp).                              *)
(***************************************************************************)
\* C5: every analysis request whose response is ok, sent by handleAnalyze or by
\* handleAnalyzeWithAnchors, appends exactly one result to session.analyses,
\* raises lastClipIndex by exactly 1, and starts the timer that shows Results.
C5_SuccessAppendsOnce ==
  [][\A r \in Analyzing : \A data \in 1..Len(AnalysisData) :
       AnalysisOk(r, data) =>
         /\ Len(session'.analyses) = Len(session.analyses) + 1
         /\ session'.matchContext.lastClipIndex = session.matchContext.lastClipIndex + 1
         /\ timers' = timers + 1]_vars

\* C6: at most one analysis request is in flight, and session.analyses only grows
\* at its end, by the result of the call that just completed.
C6_OneAnalysisInFlight ==
  /\ [](BagCardinality(requests) <= 1)
  /\ [][\A r \in Analyzing : \A data \in 1..Len(AnalysisData) :
          AnalysisOk(r, data) /\ session' # session =>
            /\ Len(session'.analyses) = Len(session.analyses) + 1
            /\ SubSeq(session'.analyses, 1, Len(session.analyses)) = session.analyses
            /\ session'.analyses[Len(session'.analyses)] = AnalysisResult(r, data)]_vars

\* C8: whatever the three keys hold when the page opens (nothing, text that does
\* not parse, JSON of another shape), the App starts, and what could not be used
\* is gone from the storage.
C8_StartupTolerant ==
  /\ appState # Crashed
  /\ storage.session.tag = "json"
  /\ storage.uploadData.tag # "corrupt"
  /\ storage.lastTarget.tag # "corrupt"

\* C9: Retry with a stored contract and an upload sends one request, for the
\* stored contract and the job of the upload, equal in every field to the request
\* of the submission that stored the contract; Retry without them sends nothing,
\* clears the error and shows the anchor selection.
C9_RetryResubmitsUnchanged ==
  [][handleRetry =>
       IF lastTarget # NoTarget /\ uploadData # 0
         THEN /\ requests' = Issue(requests, lastRequest')
              /\ lastRequest'.kind = lastTarget.kind
              /\ lastRequest'.c = lastTarget.c
              /\ lastRequest'.job = uploadData
              /\ lastRequest' = lastRequest
              /\ lastTarget' = lastTarget
         ELSE /\ requests' = requests
              /\ error' = NoError
              /\ appState' = STATES.ANCHOR_SELECT]_vars

C11_SessionOnlyGrows ==
  /\ [][handleClearChat \/
          /\ Len(session'.analyses) >= Len(session.analyses)
          /\ SubSeq(session'.analyses, 1, Len(session.analyses)) = session.analyses
          /\ session'.matchContext.totalShotAttempts >= session.matchContext.totalShotAttempts
          /\ session'.matchContext.totalLevelChanges >= session.matchContext.totalLevelChanges
          /\ session'.matchContext.totalSprawls >= session.matchContext.totalSprawls
          /\ session'.matchContext.lastClipIndex >= session.matchContext.lastClipIndex
          /\ \A key \in DOMAIN session.matchContext.recurringIssues :
                /\ key \in DOMAIN session'.matchContext.recurringIssues
                /\ session'.matchContext.recurringIssues[key] >=
                     session.matchContext.recurringIssues[key]]_vars
  /\ [][(\/ handleLogoClick
         \/ handleUploadAnother
         \/ handleUploadContinuation
         \/ handleUpload
         \/ \E j \in Uploading : UploadOk(j) \/ UploadFail(j)
         \/ \E r \in Analyzing : AnalysisFail(r)) => session' = session]_vars

\* a second result was appended to a session that a logo click had kept
C11_Witness ==
  /\ Len(session.analyses) = 2
  /\ session.analyses[1].job_id # session.analyses[2].job_id
  /\ session.matchContext.lastClipIndex = 2

\* the events of a response body whose lowercased type contains one of the words
EventsWith(data, words) ==
  {i \in 1..Len(data.events) :
     \E w \in words : includes(toLowerCase(data.events[i].type), w)}

\* the pointers of a response body whose lowercased title is key
PointersAs(data, key) ==
  {i \in 1..Len(data.pointers) : toLowerCase(data.pointers[i].title) = key}

CountOf(issues, key) == IF key \in DOMAIN issues THEN issues[key] ELSE 0

\* what a fold does to the three totals, the clip index and the summary
FoldsTotals(old, new, data) ==
  /\ new.totalShotAttempts = old.totalShotAttempts +
       Cardinality(EventsWith(data, {<<"s", "h", "o", "t">>,
                                     <<"t", "a", "k", "e", "d", "o", "w", "n">>}))
  /\ new.totalLevelChanges = old.totalLevelChanges +
       Cardinality(EventsWith(data, {<<"l", "e", "v", "e", "l">>}))
  /\ new.totalSprawls = old.totalSprawls +
       Cardinality(EventsWith(data, {<<"s", "p", "r", "a", "w", "l">>}))
  /\ new.lastClipIndex = old.lastClipIndex + 1
  /\ new.clipsSummary = <<new.lastClipIndex, new.lastClipIndex > 1>>

\* the example of the claim: +2 shots, +1 level change, one more 'get lower' and
\* one more 'keep hands up'
FoldsExample(old, new) ==
  /\ new.totalShotAttempts = old.totalShotAttempts + 2
  /\ new.totalLevelChanges = old.totalLevelChanges + 1
  /\ new.totalSprawls = old.totalSprawls
  /\ new.recurringIssues[<<"g", "e", "t", " ", "l", "o", "w", "e", "r">>] =
       CountOf(old.recurringIssues, <<"g", "e", "t", " ", "l", "o", "w", "e", "r">>) + 1
  /\ new.recurringIssues[<<"k", "e", "e", "p", " ", "h", "a", "n", "d", "s", " ", "u", "p">>] =
       CountOf(old.recurringIssues,
               <<"k", "e", "e", "p", " ", "h", "a", "n", "d", "s", " ", "u", "p">>) + 1

\* C12 as stated: a fold adds the shot/takedown, level and sprawl events to the
\* totals, adds 1 to recurringIssues[lowercased title] for every pointer of the
\* result, adds 1 to lastClipIndex and rebuilds clipsSummary.
C12_FoldPerPointer ==
  [][\A r \in Analyzing : \A d \in 1..Len(AnalysisData) :
       (AnalysisOk(r, d) /\ r.kind = "single") =>
         LET old == session.matchContext
             new == session'.matchContext
         IN /\ FoldsTotals(old, new, AnalysisData[d])
            /\ d = 1 => FoldsExample(old, new)
            /\ \A i \in 1..Len(AnalysisData[d].pointers) :
                 LET key == toLowerCase(AnalysisData[d].pointers[i].title)
                 IN /\ key \in DOMAIN new.recurringIssues
                    /\ new.recurringIssues[key] =
                         CountOf(old.recurringIssues, key) +
                         Cardinality(PointersAs(AnalysisData[d], key))]_vars

\* C12, amended: as above for every pointer whose title is not empty; a pointer
\* without title, or with the title '', is passed over, and the counts of all
\* other titles stay.
C12_FoldPerTitledPointer ==
  [][\A r \in Analyzing : \A d \in 1..Len(AnalysisData) :
       (AnalysisOk(r, d) /\ r.kind = "single") =>
         LET old == session.matchContext
             new == session'.matchContext
             titles == {toLowerCase(AnalysisData[d].pointers[i].title) :
                          i \in 1..Len(AnalysisData[d].pointers)} \ {NoString}
         IN /\ FoldsTotals(old, new, AnalysisData[d])
            /\ d = 1 => FoldsExample(old, new)
            /\ DOMAIN new.recurringIssues = DOMAIN old.recurringIssues \cup titles
            /\ \A key \in DOMAIN new.recurringIssues :
                 new.recurringIssues[key] =
                   CountOf(old.recurringIssues, key) +
                   (IF key \in titles
                      THEN Cardinality(PointersAs(AnalysisData[d], key))
                      ELSE 0)]_vars

\* both response bodies were folded: 'get lower' was seen twice
C12_Witness ==
  /\ session.matchContext.lastClipIndex = 2
  /\ CountOf(session.matchContext.recurringIssues,
             <<"g", "e", "t", " ", "l", "o", "w", "e", "r">>) = 2
  /\ session.matchContext.totalSprawls = 1

C14_ClearChat ==
  [][handleClearChat =>
       /\ session' = EmptySession
       /\ appState' = STATES.UPLOAD
       /\ uploadData' = 0
       /\ lastTarget' = NoTarget
       /\ error' = NoError
       /\ ~isUploading' /\ ~uploadComplete' /\ ~analyzeStarted' /\ ~analyzeComplete'
       /\ pendingMode' = "new"
       /\ storage'.session.tag \in {"absent", "json"}
       /\ storage'.session.tag = "json" => storage'.session.val.analyses = <<>>
       /\ storage'.uploadData.tag = "absent"
       /\ storage'.lastTarget.tag = "absent"
       /\ Boot(storage').session = EmptySession
       /\ Boot(storage').appState = STATES.UPLOAD
       /\ Boot(storage').uploadData = 0
       /\ Boot(storage').lastTarget = NoTarget]_vars

\* a session with a result was cleared while its completion timer was pending
C14_Witness ==
  /\ timers > 0
  /\ session = EmptySession
  /\ appState = STATES.UPLOAD
  /\ storage.lastTarget.tag = "absent"
  /\ requests = EmptyBag

(***************************************************************************)
(* More claims about the anchor board (SpecBoard).                         *)
(***************************************************************************)
\* C15: skip leaves the current anchor with box = null and skipped = true and its
\* timestamp; when a next anchor exists the pointer moves to it and the frame
\* fetch for its timestamp starts, on the last anchor the pointer stays and no
\* fetch starts; every other anchor is as before.
C15_SkipAdvances ==
  [][handleSkip =>
       /\ anchors'[currentAnchorIndex + 1] =
            [t |-> SpreadAt(anchors, currentAnchorIndex).t, box |-> NoBox, skipped |-> TRUE]
       /\ \A k \in 1..Len(anchors) : k # currentAnchorIndex + 1 => anchors'[k] = anchors[k]
       /\ IF currentAnchorIndex + 1 < Len(anchorTimestamps)
            THEN /\ currentAnchorIndex' = currentAnchorIndex + 1
                 /\ inflight' = Issue(inflight,
                      Fetch("frame", job, anchorTimestamps[currentAnchorIndex + 2], FALSE))
                 /\ loadingFrame'
            ELSE /\ currentAnchorIndex' = currentAnchorIndex
                 /\ inflight' = inflight]_vars

\* both anchors were skipped: the first skip moved the pointer, the second did not
C15_Witness ==
  /\ Interactive
  /\ Len(anchors) = 2
  /\ Skips(anchors) = {1, 2}
  /\ currentAnchorIndex = 1

\* C16: goTo(index) with 0 <= index < N sets the pointer to index and starts the
\* frame fetch for that anchor; with any other index it changes nothing and
\* starts no fetch; so the pointer is within [0, N-1] whenever N > 0.
C16_GoToInRange ==
  /\ [][\A index \in -1..MaxAnchors :
          goToAnchor(index) =>
            IF index >= 0 /\ index < Len(anchorTimestamps)
              THEN /\ currentAnchorIndex' = index
                   /\ inflight' = Issue(inflight,
                        Fetch("frame", job, anchorTimestamps[index + 1], FALSE))
                   /\ anchors' = anchors
              ELSE UNCHANGED boardVars]_vars
  /\ [](Len(anchorTimestamps) > 0 =>
          currentAnchorIndex >= 0 /\ currentAnchorIndex < Len(anchorTimestamps))

\* C17: auto-select stores in the current anchor the geometry of the suggested
\* detection of the current anchor's frame, or without a suggestion that of the
\* first detection of that frame; it clears skipped, keeps the anchor's
\* timestamp, the pointer and every other anchor, and never stores a detection
\* of another frame (stated for the detections of the mounted job).
C17_AutoSelectCurrentFrame ==
  [][handleAutoSelect =>
       LET chosen == IF autoTarget # NoDet THEN autoTarget ELSE boxes[1]
       IN /\ anchors'[currentAnchorIndex + 1] =
               [t |-> SpreadAt(anchors, currentAnchorIndex).t,
                box |-> chosen.g, skipped |-> FALSE]
          /\ chosen.g[1] = job => chosen.g[2] = CurrentT
          /\ \A k \in 1..Len(anchors) :
               k # currentAnchorIndex + 1 => anchors'[k] = anchors[k]
          /\ currentAnchorIndex' = currentAnchorIndex]_vars

\* C18: when the anchors response of a job is ok, the board holds one anchor per
\* returned timestamp, in the returned order, each with box = null and skipped =
\* false, the pointer is 0, and the frame fetch for the first timestamp of that
\* job starts.
C18_LoadAnchors ==
  [][\A f \in Pending : \A n \in 0..MaxAnchors :
       AnchorsOk(f, n) =>
         /\ anchorTimestamps' = Timestamps(n)
         /\ Len(anchors') = n
         /\ \A k \in 1..n :
              anchors'[k] = [t |-> Timestamps(n)[k], box |-> NoBox, skipped |-> FALSE]
         /\ currentAnchorIndex' = 0
         /\ n > 0 => /\ Fetch("frame", f.job, Timestamps(n)[1], TRUE) \in BagToSet(inflight')
                     /\ loadingFrame']_vars

\* C19: when the anchors request fails, the board has no anchors afterwards and
\* the state the component is left in is one that no ok response, whatever list
\* it returns, would have produced (the failure is visible in the state the
\* component renders from).
C19_LoadFailureSurfaced ==
  [][\A f \in Pending :
       AnchorsFail(f) =>
         /\ anchors' = <<>>
         /\ anchorTimestamps' = <<>>
         /\ \A n \in 0..MaxAnchors : ~AnchorsOk(f, n)]_vars

\* C20: anchor navigation is debounced: a change of position only arms the
\* delay, and the frame/box request is issued when the delay has passed, so the
\* navigation step itself issues no request (every position of a burst would
\* otherwise reach the network).
C20_NavigationDebounced ==
  [][\A index \in -1..MaxAnchors : goToAnchor(index) => inflight' = inflight]_vars

(***************************************************************************)
(* Claims about TrimStep (SpecTrim).                                       *)
(***************************************************************************)
\* C21: of the frame object URLs the preview created, at most one is live; while
\* the component shows a frame the live URL is the installed one (every URL
\* installed before is revoked); and once the component is unmounted and its
\* fetches have ended, no URL is live.
C21_OneLiveUrl ==
  /\ Cardinality(liveUrls) <= 1
  /\ (trimMounted /\ trimFrameUrl # NoUrl) => liveUrls = {trimFrameUrl}
  /\ (~trimMounted /\ frameFetches = EmptyBag) => liveUrls = {}

\* C22: every set-trim request TrimStep has sent carries a window with
\* 0 <= trim_start < trim_end <= duration and trim_end - trim_start >=
\* MIN_CLIP_LENGTH, and onTrimComplete was only called for such windows.
C22_OnlyValidTrimSent ==
  /\ \A i \in 1..Len(trimLog) :
       /\ 0 <= trimLog[i].trim_start
       /\ trimLog[i].trim_start < trimLog[i].trim_end
       /\ trimLog[i].trim_end <= duration
       /\ trimLog[i].trim_end - trimLog[i].trim_start >= Seconds(MIN_CLIP_LENGTH)
  /\ \A i \in 1..Len(trimDone) :
       trimDone[i].trim_end - trimDone[i].trim_start >= Seconds(MIN_CLIP_LENGTH)

C24_OnlyAllowedFiles ==
  [][LET EndsWith(name, e) ==
           /\ Len(name) > Len(e)
           /\ name[Len(name) - Len(e)] = "."
           /\ toLowerCase(SubSeq(name, Len(name) - Len(e) + 1, Len(name))) = e
         Accepted(f) ==
           /\ f.type \in VALID_TYPES \/ \E e \in VALID_EXTENSIONS : EndsWith(f.name, e)
           /\ f.size <= MAX_FILE_SIZE
     IN /\ \A f \in Files :
             handleFileSelect(f) =>
               IF Accepted(f)
                 THEN file' = f /\ fileError' = "null"
                 ELSE file' = NoFile /\ fileError' # "null"
        /\ file' # NoFile => Accepted(file')
        /\ offered' # NoFile => Accepted(offered')]_vars

(***************************************************************************)
(* Claims about the requests of the App controller (SpecApp).              *)
(***************************************************************************)
\* C25: the request either analyze handler sends carries, when the upload was
\* started as a continuation and the session has an analysis, the prior context
\* of the most recent analysis with the totals and recurring issues of
\* matchContext and clipNumber = lastClipIndex + 1; otherwise it carries no
\* prior context.
C25_PriorContext ==
  [][\A c \in Contracts :
       (App_handleAnalyze(c) \/ handleAnalyzeWithAnchors(c)) =>
         IF pendingMode = "continuation" /\ Len(session.analyses) > 0
           THEN lastRequest'.prior_context =
                  [tag |-> "context",
                   last |-> session.analyses[Len(session.analyses)].data,
                   context |-> [session.matchContext EXCEPT !.clipsSummary = NoSummary],
                   clipNumber |-> session.matchContext.lastClipIndex + 1]
           ELSE lastRequest'.prior_context.tag \in {"absent", "null"}]_vars

\* C26: the request handleAnalyzeWithAnchors sends holds the anchors contract it
\* was called with and a continuation flag that is true exactly when the upload
\* was started with 'Upload Next Part'.
C26_AnchorsRequestBody ==
  [][\A c \in Contracts :
       handleAnalyzeWithAnchors(c) =>
         /\ lastRequest'.kind = "anchors"
         /\ lastRequest'.c = c
         /\ lastRequest'.job = uploadData
         /\ lastRequest'.continuation = (pendingMode = "continuation")]_vars

\* C27 as claimed: the SessionSummary panel and the copied summary text both
\* show exactly the titles whose recurringIssues count is at least 2.
C27_AllRecurringSurfaced ==
  LET issues == session.matchContext.recurringIssues
      recurring == {<<k, issues[k]>> : k \in {q \in DOMAIN issues : issues[q] >= 2}}
  IN Running => /\ SessionSummary(session) = recurring
                /\ buildSessionSummaryText(session) = recurring

\* C27 amended: the copied summary text shows exactly the titles with a count of
\* at least 2; the panel shows three of them when there are more than three,
\* none with a lower count than one it leaves out, and all of them otherwise; a
\* title with a count below 2 is in neither.
C27_TopRecurringSurfaced ==
  LET issues == session.matchContext.recurringIssues
      recurring == {<<k, issues[k]>> : k \in {q \in DOMAIN issues : issues[q] >= 2}}
      panel == SessionSummary(session)
  IN Running =>
       /\ buildSessionSummaryText(session) = recurring
       /\ panel \subseteq recurring
       /\ Cardinality(panel) = (IF Cardinality(recurring) > 3 THEN 3
                                ELSE Cardinality(recurring))
       /\ \A e \in panel : \A q \in recurring \ panel : e[2] >= q[2]

\* four titles were met twice: the panel leaves one out
C27_Witness ==
  /\ Running
  /\ Cardinality(buildSessionSummaryText(session)) = 4
  /\ Cardinality(SessionSummary(session)) = 3

\* C28: within one page load, appState only changes along Upload -> AnchorSelect
\* -> Analyzing -> Results, Results -> Upload, and from any state to Upload.
C28_LegalTransitions ==
  [][(appState' # appState /\ ~Reload) =>
       \/ appState' = STATES.UPLOAD
       \/ appState = STATES.UPLOAD /\ appState' = STATES.ANCHOR_SELECT
       \/ appState = STATES.ANCHOR_SELECT /\ appState' = STATES.ANALYZING
       \/ appState = STATES.ANALYZING /\ appState' = STATES.RESULTS]_vars


\* C29: an ok boxes response with an empty list leaves the board in a "zero
\* candidates" state in which Skip still marks the current anchor skipped, and
\* a failed boxes fetch never leaves the component in the state that an ok
\* response with an empty list would have left it in.
C29_ZeroCandidatesDistinct ==
  [][/\ \A f \in Pending : BoxesOk(f, 0, 0) => boxes' = <<>> /\ autoTarget' = NoDet
     /\ (Len(boxes) = 0 /\ handleSkip) =>
          /\ anchors'[currentAnchorIndex + 1].skipped
          /\ anchors'[currentAnchorIndex + 1].box = NoBox
     /\ \A f \in Pending : BoxesFail(f) => ~BoxesOk(f, 0, 0)]_vars


\* C30: whatever the interleaving of navigation, selections and responses, a
\* box stored in anchors[i] is the geometry of a detection of the frame at
\* anchor i's own timestamp (stated for the detections of the mounted job).
C30_BoxOfOwnTimestamp ==
  mounted =>
    \A i \in 1..Len(anchors) :
      (anchors[i].box # NoBox /\ anchors[i].box[1] = job) =>
        anchors[i].box[2] = anchors[i].t

\* C31: on the mounted board anchors and anchorTimestamps have the same length,
\* anchors[i].t is anchorTimestamps[i], answeredCount lies in 0..N, and a
\* selection or a skip never adds, removes or retimes an anchor, an empty board
\* (N = 0) included.
C31_AnchorsMatchTimestamps ==
  [][/\ mounted' =>
          /\ Len(anchors') = Len(anchorTimestamps')
          /\ \A i \in 1..Len(anchors') : anchors'[i].t = anchorTimestamps'[i]
          /\ answeredCount' \in 0..Len(anchorTimestamps')
     /\ (handleSkip \/ handleAutoSelect \/ \E k \in 1..Len(boxes) : handleSelectBox(boxes[k])) =>
          /\ Len(anchors') = Len(anchors)
          /\ \A i \in 1..Len(anchors) : anchors'[i].t = anchors[i].t]_vars

\* C32: while the App is back on Upload with uploadData = null, the completion of
\* a request that was in flight when the user left (an analysis response, the
\* completion timer of an analysis, the response of an upload that is not the one
\* now running) changes neither appState, nor uploadData, nor the session.
C32_AbortedCompletionIgnored ==
  [][(appState = STATES.UPLOAD /\ uploadData = 0) =>
       LET late ==
             \/ \E r \in Analyzing :
                  \/ AnalysisFail(r)
                  \/ \E data \in 1..Len(AnalysisData) : AnalysisOk(r, data)
             \/ CompletionTimer
             \/ \E j \in Uploading :
                  /\ ~isUploading \/ j # nextJob - 1
                  /\ UploadOk(j) \/ UploadFail(j)
       IN late => UNCHANGED <<appState, uploadData, session>>]_vars

\* C33: session.analyses has matchContext.lastClipIndex entries and the i-th of
\* them has clipIndex = i.
C33_ClipIndicesConsecutive ==
  Running =>
    /\ Len(session.analyses) = session.matchContext.lastClipIndex
    /\ \A i \in 1..Len(session.analyses) : session.analyses[i].clipIndex = i

\* C34: whenever the App shows Results, session.analyses is not empty.
C34_ResultsHasAnalyses ==
  appState = STATES.RESULTS => Len(session.analyses) > 0

\* C35: the session update of a successful analysis does not modify the session
\* object it starts from, nor anything reachable from it, and the updater
\* applied once more to that same object gives the same next session.
C35_UpdaterIsPure ==
  [][\A r \in Analyzing : \A data \in 1..Len(AnalysisData) :
       (AnalysisOk(r, data) /\ r.kind = "single") =>
         LET analysisResult == AnalysisResult(r, data)
             prev == AppendAnalysis(session, analysisResult)
         IN /\ prevAfterUpdate(prev, analysisResult) = prev
            /\ updateMatchContext(prevAfterUpdate(prev, analysisResult), analysisResult)
                 = session']_vars

\* C36: recurringIssues[title] is the number of analyses of the session that have
\* a pointer with that title (in any letter case), so a title that the summary
\* flags as recurring is one met in at least two clips.
C36_RecurringCountsClips ==
  LET issues == session.matchContext.recurringIssues
      clips(key) == {i \in 1..Len(session.analyses) :
                       PointersAs(AnalysisData[session.analyses[i].data], key) # {}}
  IN Running =>
       /\ \A key \in DOMAIN issues : issues[key] = Cardinality(clips(key))
       /\ \A e \in buildSessionSummaryText(session) \cup SessionSummary(session) :
            Cardinality(clips(e[1])) >= 2

\* C37: while the pending upload mode is 'continuation' the session has
\* analyses, so a request of handleAnalyze with continuation = true carries a
\* prior context built from the session, never null; handleUploadAnother,
\* handleClearChat and the completion of a successful analysis set the mode back
\* to 'new'.
C37_ContinuationHasPrior ==
  /\ [](Running /\ pendingMode = "continuation" => Len(session.analyses) > 0)
  /\ [][(BagCardinality(requests') > BagCardinality(requests)
           /\ lastRequest'.kind = "single" /\ lastRequest'.continuation) =>
          lastRequest'.prior_context.tag = "context"]_vars
  /\ [][(handleUploadAnother \/ handleClearChat \/ CompletionTimer) =>
          pendingMode' = "new"]_vars

\* a continuation clip was analysed with its prior context and the mode is back
\* to 'new'
C37_Witness ==
  /\ appState = STATES.RESULTS
  /\ pendingMode = "new"
  /\ Len(session.analyses) = 2
  /\ session.analyses[2].isContinuation
  /\ lastRequest.prior_context.tag = "context"

\* C38: in AnchorSelectStep and in TrimStep loadingFrame is true exactly while a
\* frame/box fetch of the mounted component is in flight.
C38_LoadingWhilePending ==
  /\ mounted =>
       (loadingFrame <=> \E f \in Pending : f.kind \in {"frame", "boxes"})
  /\ trimMounted =>
       (trimLoadingFrame <=> frameFetches # EmptyBag)

\* C39: in TargetSelectStep the target_box passed to onAnalyze is the geometry of
\* a detection of the frame at the t_start passed with it, and a boxes response
\* with an auto_target that arrives while no target is selected makes that
\* auto_target the selected target.
C39_TargetMatchesStart ==
  /\ [](\A i \in 1..Len(sent) :
          sent[i].target_box # NoBox => sent[i].target_box[2] = sent[i].t_start)
  /\ [][\A f \in BagToSet(targetFetches) : \A n \in 1..MaxBoxes : \A auto \in 1..n :
          (Target_BoxesResponse(f, TRUE, n, auto) /\ selectedTarget = NoDet) =>
            selectedTarget' = Detection(1, f.t, auto)]_vars

====
